---------------------------- MODULE Spec2Model ----------------------------
(***************************************************************************)
(* A model of two parts of the SVG-to-tree converter:                      *)
(*                                                                         *)
(*   usvg/src/image.rs            PreloadedImageData::new (premultiply),   *)
(*                                convert, get_href_data                   *)
(*   usvgr/src/filter/lighting.rs convert_diffuse, convert_specular,       *)
(*                                convert_lighting_color,                  *)
(*                                convert_light_source,                    *)
(*                                LightSource::transform                   *)
(*                                                                         *)
(* Every function is sequential and synchronous, so each one is a single   *)
(* action that takes the call's arguments (held in variables chosen by     *)
(* Init) to its return value.  There is one specification per function     *)
(* group: SpecImage, SpecLighting, SpecTransform and SpecConvert.          *)
(*                                                                         *)
(* Numbers.  The u8/f32 arithmetic of the premultiplication is modelled    *)
(* bit-exactly (24-bit significand, round-to-nearest-even).  The f64       *)
(* attributes of the lighting code are modelled as integers or, where      *)
(* fractions matter, as integers in thousandths; the values used are       *)
(* small, so every sum, difference and product of them is exact in f64.    *)
(***************************************************************************)
EXTENDS Integers, Sequences, FiniteSets, TLC

VARIABLES
    pc,           \* "call" before the function under study is called,
                  \* "done" once it has returned or panicked
    \* ---- PreloadedImageData::new ----
    width,        \* argument `width`
    height,       \* argument `height`
    rgba_data,    \* argument `rgba_data`: a sequence of bytes
    image,        \* the returned PreloadedImageData, or Panicked
    \* ---- convert_diffuse / convert_specular ----
    fe,           \* the filter primitive node (attributes, ancestors, children)
    kind,         \* the returned Option<Kind>
    \* ---- LightSource::transform ----
    light,        \* self
    region,       \* the ScreenRect
    ts,           \* the Transform
    transformed,  \* the returned LightSource
    \* ---- image::convert ----
    node,         \* the <image> node being converted
    image_data,   \* state.opt.image_data: href -> preloaded image
    tree,         \* children appended to `parent`
    log,          \* warnings given to the log sink
    last          \* `parent` and the log as they were before the call, and
                  \* the value returned

vars == <<pc, width, height, rgba_data, image, fe, kind, light, region, ts,
          transformed, node, image_data, tree, log, last>>

imageVars     == <<width, height, rgba_data, image>>
lightingVars  == <<fe, kind>>
transformVars == <<light, region, ts, transformed>>
convertVars   == <<node, image_data, tree, log, last>>

\* Values are tagged records, so that any two of them can be compared.
NoValue   == [tag |-> "NoValue"]       \* nothing returned yet
Panicked  == [tag |-> "Panicked"]      \* the call panicked
None      == [tag |-> "None"]          \* Option::None
Some(x)   == [tag |-> "Some", val |-> x]
IsSome(o) == o.tag = "Some"
UnwrapOr(o, d) == IF o.tag = "Some" THEN o.val ELSE d

Min(a, b) == IF a < b THEN a ELSE b
Max(a, b) == IF a > b THEN a ELSE b

(***************************************************************************)
(* f32 arithmetic.  A non-negative finite f32 is [m, e], the value         *)
(* m * 2^e with m < 2^24 (24 bits of significand).  All intermediate       *)
(* integers stay below 2^31.                                               *)
(***************************************************************************)
RECURSIVE BitLen(_)
BitLen(n) == IF n = 0 THEN 0 ELSE 1 + BitLen(n \div 2)

\* q with its k low bits rounded away, to nearest, ties to even
RoundNE(q, k) ==
    IF k = 0 THEN q
    ELSE LET hi   == q \div (2 ^ k)
             lo   == q % (2 ^ k)
             half == 2 ^ (k - 1)
         IN  IF lo > half \/ (lo = half /\ hi % 2 = 1) THEN hi + 1 ELSE hi

\* quotient and remainder of (n * 2^s) / d, one bit at a time
RECURSIVE LongDiv(_, _, _)
LongDiv(n, d, s) ==
    IF s = 0 THEN [q |-> n \div d, r |-> n % d]
    ELSE LET p == LongDiv(n, d, s - 1)
         IN  [q |-> 2 * p.q + ((2 * p.r) \div d), r |-> (2 * p.r) % d]

RECURSIVE NormShift(_, _)
NormShift(n, d) == IF n >= d THEN 0 ELSE 1 + NormShift(2 * n, d)

\* `a as f32 / 255.0`: the correctly rounded quotient
F32DivU8(a, d) ==
    IF a = 0 THEN [m |-> 0, e |-> -1]
    ELSE LET s  == 23 + NormShift(a, d)
             qr == LongDiv(a, d, s)
             up == 2 * qr.r > d \/ (2 * qr.r = d /\ qr.q % 2 = 1)
         IN  [m |-> IF up THEN qr.q + 1 ELSE qr.q, e |-> -s]

\* `c as f32 * x`: the exact product c * x.m, rounded to 24 bits.  The
\* product can need 32 bits, so it is carried as hi * 2^12 + lo.
F32MulU8(c, x) ==
    LET plo == c * (x.m % 4096)
        hi  == c * (x.m \div 4096) + (plo \div 4096)
        lo  == plo % 4096
        k   == Max(0, BitLen(hi) + 12 - 24)
    IN  IF k = 0 THEN [m |-> hi * 4096 + lo, e |-> x.e]
        ELSE LET kept == hi * (2 ^ (12 - k)) + (lo \div (2 ^ k))
                 drop == lo % (2 ^ k)
                 half == 2 ^ (k - 1)
                 up   == drop > half \/ (drop = half /\ kept % 2 = 1)
             IN  [m |-> IF up THEN kept + 1 ELSE kept, e |-> x.e + k]

\* `x + 0.5`, rounded to 24 bits (x.e <= -1 for every product above)
F32AddHalf(x) ==
    LET s == x.m + 2 ^ (-1 - x.e)
        k == Max(0, BitLen(s) - 24)
    IN  [m |-> RoundNE(s, k), e |-> x.e + k]

\* `x as u8`: truncation toward zero, saturating at 255 (m < 2^25, so the
\* value is below 1 when e < -25)
F32ToU8(x) ==
    IF x.e >= 0
    THEN IF x.m >= 256 THEN 255 ELSE Min(255, x.m * (2 ^ Min(x.e, 8)))
    ELSE IF x.e < -25 THEN 0
    ELSE Min(255, x.m \div (2 ^ (-x.e)))


(***************************************************************************)
(* PreloadedImageData::new                                                 *)
(***************************************************************************)
\* Bounds of the inputs.
MaxDim    == 2      \* width and height range over 0..MaxDim
MaxPixels == 2      \* sample buffers hold up to MaxPixels whole pixels

Byte == 0..255

\* one colour channel of one pixel: `(c as f32 * alpha + 0.5) as u8`
\* with `alpha = a as f32 / 255.0`
PremulChannelTrunc(c, a) == F32ToU8(F32MulU8(c, F32DivU8(a, 255)))
PremulChannel(c, a) == F32ToU8(F32AddHalf(F32MulU8(c, F32DivU8(a, 255))))

\* the loop body for the pixel at byte offset i (0-based in the code,
\* so bytes i+1..i+4 of the 1-based sequence)
PremulPixel(buf, i) ==
    LET a == buf[i + 4]
    IN  <<PremulChannel(buf[i + 1], a), PremulChannel(buf[i + 2], a),
          PremulChannel(buf[i + 3], a), a>>

\* the whole loop `for i in (0..len).step_by(4)` over a buffer of whole pixels
PremulData(buf) ==
    [j \in 1..Len(buf) |-> PremulPixel(buf, 4 * ((j - 1) \div 4))[((j - 1) % 4) + 1]]

\* Indexing `rgba_data[i + 3]` is out of bounds, and panics, in the last
\* iteration exactly when the length is not a multiple of 4.
NewPanics(buf) == Len(buf) % 4 # 0

New ==
    /\ pc = "call"
    /\ pc' = "done"
    /\ image' = IF NewPanics(rgba_data) THEN Panicked
                ELSE [tag |-> "PreloadedImageData", data |-> PremulData(rgba_data),
                      width |-> width, height |-> height]
    /\ UNCHANGED <<width, height, rgba_data, lightingVars, transformVars,
                   convertVars>>

\* Inputs: every (channel, alpha) pair in a one-pixel image, and sample
\* buffers of every length up to MaxPixels pixels and three stray bytes,
\* under every width and height.
FullRangePixels ==
    {<<c, 255 - c, (c + 128) % 256, a>> : c \in Byte, a \in Byte}

SamplePixels == {<<255, 128, 0, 128>>, <<10, 20, 30, 255>>, <<200, 100, 50, 0>>}

RECURSIVE Flatten(_)
Flatten(ps) == IF ps = <<>> THEN <<>> ELSE Head(ps) \o Flatten(Tail(ps))

SampleBuffers ==
    {SubSeq(Flatten(ps), 1, n) :
        ps \in [1..(MaxPixels + 1) -> SamplePixels], n \in 0..(4 * MaxPixels + 3)}

ImageIdle == width = 0 /\ height = 0 /\ rgba_data = <<>> /\ image = NoValue
LightingIdle == fe = NoValue /\ kind = NoValue
TransformIdle ==
    light = NoValue /\ region = NoValue /\ ts = NoValue /\ transformed = NoValue
ConvertIdle ==
    /\ node = NoValue /\ image_data = NoValue /\ tree = <<>> /\ log = <<>>
    /\ last = NoValue

InitImage ==
    /\ pc = "call"
    /\ \/ /\ width = 1 /\ height = 1
          /\ rgba_data \in FullRangePixels
       \/ /\ width \in 0..MaxDim /\ height \in 0..MaxDim
          /\ rgba_data \in SampleBuffers
    /\ image = NoValue
    /\ LightingIdle /\ TransformIdle /\ ConvertIdle

NextImage == New

SpecImage == InitImage /\ [][NextImage]_vars


(***************************************************************************)
(* The parsed document (svgtree), as far as the lighting code reads it.    *)
(* An element is [tag, attrs, children]; attrs is a record of the          *)
(* attributes present (every element carries `id`).  Numeric attributes    *)
(* are f64 values in thousandths; Infinity is the non-finite value.        *)
(***************************************************************************)
Infinity == 1000 * 1000 * 1000
IsFinite(x) == x < Infinity /\ x > -Infinity
Units(n) == 1000 * n

\* svgtree::Node::attribute: the attribute's value when present
Attr(n, aid) == IF aid \in DOMAIN n.attrs THEN Some(n.attrs[aid]) ELSE None

\* svgtree::Node::find_attribute for an inherited property: the value on the
\* nearest of the node and its ancestors that has it.  `chain` lists the
\* node's own value first, then its ancestors', nearest first.
RECURSIVE FindAttribute(_)
FindAttribute(chain) ==
    IF chain = <<>> THEN None
    ELSE IF IsSome(Head(chain)) THEN Head(chain)
    ELSE FindAttribute(Tail(chain))

\* svgrtypes::Color is RGBA; Color is RGB
Rgba(r, g, b, a) == [red |-> r, green |-> g, blue |-> b, alpha |-> a]
Rgb(r, g, b)     == [red |-> r, green |-> g, blue |-> b]
ColorBlack == Rgba(0, 0, 0, 255)        \* svgrtypes::Color::black()
ColorWhite == Rgb(255, 255, 255)        \* Color::white()
\* SvgColorExt::split_alpha(c).0
SplitAlpha(c) == Rgb(c.red, c.green, c.blue)

\* strict_num::PositiveF64::new: Some for a finite number >= 0
PositiveF64New(n) == IF IsFinite(n) /\ n >= 0 THEN Some(n) ELSE None

\* crate::utils::f64_bound(min, val, max)
F64Bound(min, val, max) == IF val > max THEN max ELSE IF val < min THEN min ELSE val

\* super::resolve_input: an opaque descriptor of the `in` attribute
ResolveInput(n) == UnwrapOr(Attr(n, "in"), "Previous")

(***************************************************************************)
(* convert_light_source                                                    *)
(***************************************************************************)
LightTags == {"feDistantLight", "fePointLight", "feSpotLight"}

\* parent.children().find(..): index of the first light-source child, 0 if none
RECURSIVE FindFrom(_, _)
FindFrom(children, i) ==
    IF i > Len(children) THEN 0
    ELSE IF children[i].tag \in LightTags THEN i
    ELSE FindFrom(children, i + 1)

FindLightChildLast(children) ==
    IF \E i \in 1..Len(children) : children[i].tag \in LightTags
    THEN CHOOSE i \in 1..Len(children) :
            /\ children[i].tag \in LightTags
            /\ \A j \in (i + 1)..Len(children) : children[j].tag \notin LightTags
    ELSE 0
FindLightChild(children) == FindFrom(children, 1)

\* lines 319-321: the spot light's own specularExponent
SpotExponentNoFallback(child) == UnwrapOr(Attr(child, "specularExponent"), Units(1))
SpotExponent(child) ==
    LET specular_exponent == UnwrapOr(Attr(child, "specularExponent"), Units(1))
    IN  UnwrapOr(PositiveF64New(specular_exponent), Units(1))

LightOf(child) ==
    CASE child.tag = "feDistantLight" ->
            Some([tag       |-> "DistantLight",
                  azimuth   |-> UnwrapOr(Attr(child, "azimuth"), 0),
                  elevation |-> UnwrapOr(Attr(child, "elevation"), 0)])
      [] child.tag = "fePointLight" ->
            Some([tag |-> "PointLight",
                  x   |-> UnwrapOr(Attr(child, "x"), 0),
                  y   |-> UnwrapOr(Attr(child, "y"), 0),
                  z   |-> UnwrapOr(Attr(child, "z"), 0)])
      [] child.tag = "feSpotLight" ->
            Some([tag         |-> "SpotLight",
                  x           |-> UnwrapOr(Attr(child, "x"), 0),
                  y           |-> UnwrapOr(Attr(child, "y"), 0),
                  z           |-> UnwrapOr(Attr(child, "z"), 0),
                  points_at_x |-> UnwrapOr(Attr(child, "pointsAtX"), 0),
                  points_at_y |-> UnwrapOr(Attr(child, "pointsAtY"), 0),
                  points_at_z |-> UnwrapOr(Attr(child, "pointsAtZ"), 0),
                  specular_exponent   |-> SpotExponent(child),
                  limiting_cone_angle |-> Attr(child, "limitingConeAngle")])
      [] OTHER -> None

convert_light_source(parent) ==
    LET i == FindLightChild(parent.children)
    IN  IF i = 0 THEN None ELSE LightOf(parent.children[i])

(***************************************************************************)
(* convert_lighting_color                                                  *)
(***************************************************************************)
CurrentColor == [tag |-> "CurrentColor"]
ColorValue(c) == [tag |-> "Color", color |-> c]
OtherValue    == [tag |-> "String"]      \* any other AttributeValue

LightingColorKeepsDefault(n) ==
    LET v == Attr(n, "lighting-color")
    IN  IF IsSome(v) /\ v.val.tag = "Color" THEN SplitAlpha(v.val.color)
        ELSE ColorWhite
convert_lighting_color(n) ==
    LET v == Attr(n, "lighting-color")
    IN  IF IsSome(v) /\ v.val.tag = "CurrentColor"
        THEN SplitAlpha(UnwrapOr(FindAttribute(n.colors), ColorBlack))
        ELSE IF IsSome(v) /\ v.val.tag = "Color"
        THEN SplitAlpha(v.val.color)
        ELSE ColorWhite

(***************************************************************************)
(* convert_diffuse, convert_specular                                       *)
(***************************************************************************)
convert_diffuse(n) ==
    LET light_source == convert_light_source(n)
    IN  IF ~IsSome(light_source) THEN None
        ELSE Some([tag              |-> "DiffuseLighting",
                   input            |-> ResolveInput(n),
                   surface_scale    |-> UnwrapOr(Attr(n, "surfaceScale"), Units(1)),
                   diffuse_constant |-> UnwrapOr(Attr(n, "diffuseConstant"), Units(1)),
                   lighting_color   |-> convert_lighting_color(n),
                   light_source     |-> light_source.val])

SpecularLighting(n, light_source, specular_exponent) ==
    Some([tag               |-> "SpecularLighting",
          input             |-> ResolveInput(n),
          surface_scale     |-> UnwrapOr(Attr(n, "surfaceScale"), Units(1)),
          specular_constant |-> UnwrapOr(Attr(n, "specularConstant"), Units(1)),
          specular_exponent |-> specular_exponent,
          lighting_color    |-> convert_lighting_color(n),
          light_source      |-> light_source.val])

convert_specular_clamp_only(n) ==
    LET light_source == convert_light_source(n)
        specular_exponent == UnwrapOr(Attr(n, "specularExponent"), Units(1))
    IN  IF ~IsSome(light_source) THEN None
        ELSE SpecularLighting(n, light_source,
                              F64Bound(Units(1), specular_exponent, Units(128)))
convert_specular(n) ==
    LET light_source == convert_light_source(n)
        specular_exponent == UnwrapOr(Attr(n, "specularExponent"), Units(1))
    IN  IF ~IsSome(light_source) THEN None
        ELSE IF ~(Units(1) <= specular_exponent /\ specular_exponent <= Units(128))
        THEN None
        ELSE SpecularLighting(n, light_source,
                              F64Bound(Units(1), specular_exponent, Units(128)))


ConvertDiffuse ==
    /\ pc = "call"
    /\ pc' = "done"
    /\ kind' = [call |-> "convert_diffuse", ret |-> convert_diffuse(fe)]
    /\ UNCHANGED <<fe, imageVars, transformVars, convertVars>>

ConvertSpecular ==
    /\ pc = "call"
    /\ pc' = "done"
    /\ kind' = [call |-> "convert_specular", ret |-> convert_specular(fe)]
    /\ UNCHANGED <<fe, imageVars, transformVars, convertVars>>

\* Bounds of the documents.
MaxChildren  == 2     \* a primitive has up to MaxChildren children
MaxAncestors == 1     \* a primitive has up to MaxAncestors ancestors

\* the attribute sets {id} and {id, name |-> v} for v in S
Opt(name, S) == {[id |-> "n"]} \cup {[id |-> "n"] @@ (name :> v) : v \in S}

SeqsUpTo(S, n) == UNION {[1..k -> S] : k \in 0..n}

Elem(t, a) == [tag |-> t, attrs |-> a]

\* the spot light's specularExponent: non-finite, negative, zero, positive
SpotExponents ==
    {Infinity, -Infinity, Units(-1), -1, 0, 500, Units(1), Units(200)}

\* the primitive's specularExponent: around both ends of [1, 128]
PrimExponents ==
    {Infinity, Units(-1), 0, 999, Units(1), 64500, Units(128), 128001, Units(150)}

Children ==
    {Elem("desc", [id |-> "n"]), Elem("#text", [id |-> "n"]),
     Elem("feDistantLight", [id |-> "n"]),
     Elem("feDistantLight", [id |-> "n", azimuth |-> Units(45), elevation |-> Units(30)]),
     Elem("fePointLight", [id |-> "n"]),
     Elem("fePointLight", [id |-> "n", x |-> Units(10), y |-> Units(10), z |-> Units(5)]),
     Elem("feSpotLight", [id |-> "n", x |-> Units(1), y |-> Units(2), z |-> Units(3),
                          pointsAtX |-> Units(4), pointsAtY |-> Units(5),
                          pointsAtZ |-> Units(6), limitingConeAngle |-> Units(30)])}
    \cup {Elem("feSpotLight", a) : a \in Opt("specularExponent", SpotExponents)}

Red       == Rgba(255, 0, 0, 255)
SemiGreen == Rgba(0, 128, 0, 128)

LightingColors == {CurrentColor, ColorValue(Red), ColorValue(SemiGreen), OtherValue}

ColorChains ==
    UNION {[1..k -> {None, Some(Red), Some(SemiGreen)}] : k \in 1..(MaxAncestors + 1)}

ScalarAttrs ==
    {[id |-> "n"],
     [id |-> "n", surfaceScale |-> Units(2), diffuseConstant |-> 500,
      specularConstant |-> Units(3), in |-> "SourceAlpha"]}

\* The primitives: every child list with every exponent, and every colour
\* setting with a few child lists and exponents.
FeNodes ==
    {[attrs |-> a, colors |-> <<None>>, children |-> ch] :
        a \in Opt("specularExponent", PrimExponents),
        ch \in SeqsUpTo(Children, MaxChildren)}
    \cup
    {[attrs |-> (a1 @@ a2) @@ a3, colors |-> cs, children |-> ch] :
        a1 \in Opt("specularExponent", {Units(128), Units(150)}),
        a2 \in ScalarAttrs,
        a3 \in Opt("lighting-color", LightingColors),
        cs \in ColorChains,
        ch \in {<<>>, <<Elem("feDistantLight", [id |-> "n"])>>,
                <<Elem("desc", [id |-> "n"]),
                  Elem("feSpotLight", [id |-> "n", specularExponent |-> 0])>>}}

InitLighting ==
    /\ pc = "call"
    /\ fe \in FeNodes
    /\ kind = NoValue
    /\ ImageIdle /\ TransformIdle /\ ConvertIdle

NextLighting == ConvertDiffuse \/ ConvertSpecular

SpecLighting == InitLighting /\ [][NextLighting]_vars


(***************************************************************************)
(* Properties of the lighting conversion (under SpecLighting)              *)
(***************************************************************************)
Returned(f) == pc = "done" /\ kind.call = f

HasLightChild(n) == \E i \in 1..Len(n.children) : n.children[i].tag \in LightTags

\* the first light-source child in child order
FirstLightChild(n) ==
    n.children[CHOOSE i \in 1..Len(n.children) :
                  /\ n.children[i].tag \in LightTags
                  /\ \A j \in 1..(i - 1) : n.children[j].tag \notin LightTags]

\* C3: with a light-source child present, convert_specular returns no value
\* when specularExponent (1.0 when absent) is outside [1, 128], and otherwise
\* a SpecularLighting whose specular_exponent is the attribute's value; so
\* every SpecularLighting built has its exponent in [1, 128].
C3_SpecularExponentRange ==
    (Returned("convert_specular") /\ HasLightChild(fe)) =>
        LET given == IF "specularExponent" \in DOMAIN fe.attrs
                     THEN fe.attrs.specularExponent ELSE 1000
        IN  /\ (given < 1000 \/ given > 128000) => kind.ret = None
            /\ (given >= 1000 /\ given <= 128000) =>
                  /\ IsSome(kind.ret)
                  /\ kind.ret.val.tag = "SpecularLighting"
                  /\ kind.ret.val.specular_exponent = given
            /\ IsSome(kind.ret) =>
                  /\ kind.ret.val.specular_exponent >= 1000
                  /\ kind.ret.val.specular_exponent <= 128000

C3_Witness ==
    /\ Returned("convert_specular")
    /\ HasLightChild(fe)
    /\ "specularExponent" \in DOMAIN fe.attrs
    /\ fe.attrs.specularExponent = 150000
    /\ kind.ret = None

\* C4: without a distant, point or spot light among the direct children,
\* convert_diffuse and convert_specular both return no value, whatever the
\* other attributes; with one, the light source of the result is the first
\* such child's.
C4_LightSourceChild ==
    pc = "done" =>
        /\ ~HasLightChild(fe) => kind.ret = None
        /\ (HasLightChild(fe) /\ IsSome(kind.ret)) =>
              LET child == FirstLightChild(fe)
                  ls    == kind.ret.val.light_source
              IN  /\ ls.tag = CASE child.tag = "feDistantLight" -> "DistantLight"
                                [] child.tag = "fePointLight"   -> "PointLight"
                                [] child.tag = "feSpotLight"    -> "SpotLight"
                  /\ ls = LightOf(child).val
        /\ (HasLightChild(fe) /\ kind.call = "convert_diffuse") => IsSome(kind.ret)

C4_Witness ==
    /\ Returned("convert_diffuse")
    /\ Len(fe.children) = 2
    /\ fe.children[1].tag = "fePointLight"
    /\ fe.children[2].tag = "feSpotLight"
    /\ IsSome(kind.ret)
    /\ kind.ret.val.light_source.tag = "PointLight"

\* C5 as stated: a spot light's specular_exponent is 1.0 when the attribute
\* is absent, 1.0 when it is non-positive (zero or negative) or invalid, and
\* the attribute's value when that is positive and finite.
C5_SpotExponentNonPositive ==
    (pc = "done" /\ IsSome(kind.ret)
        /\ kind.ret.val.light_source.tag = "SpotLight") =>
        LET child  == FirstLightChild(fe)
            stored == kind.ret.val.light_source.specular_exponent
        IN  IF "specularExponent" \notin DOMAIN child.attrs THEN stored = 1000
            ELSE LET given == child.attrs.specularExponent
                 IN  IF given <= 0 \/ ~IsFinite(given) THEN stored = 1000
                     ELSE stored = given

\* C5, amended: a spot light's specular_exponent is 1.0 when the attribute
\* is absent, 1.0 when it is negative or not finite, and the attribute's
\* value when that is zero or positive and finite, with no upper clamp.
C5_SpotExponentNegative ==
    (pc = "done" /\ IsSome(kind.ret)
        /\ kind.ret.val.light_source.tag = "SpotLight") =>
        LET child  == FirstLightChild(fe)
            stored == kind.ret.val.light_source.specular_exponent
        IN  IF "specularExponent" \notin DOMAIN child.attrs THEN stored = 1000
            ELSE LET given == child.attrs.specularExponent
                 IN  IF given < 0 \/ ~IsFinite(given) THEN stored = 1000
                     ELSE stored = given

C5_Witness ==
    /\ pc = "done"
    /\ IsSome(kind.ret)
    /\ kind.ret.val.light_source.tag = "SpotLight"
    /\ "specularExponent" \in DOMAIN FirstLightChild(fe).attrs
    /\ FirstLightChild(fe).attrs.specularExponent = -1000
    /\ kind.ret.val.light_source.specular_exponent = 1000

\* C6: the lighting colour of a primitive is, when lighting-color is
\* currentColor, the `color` of the nearest of the node and its ancestors
\* that declares one, without its alpha, or black when none does; when
\* lighting-color is a colour, that colour without its alpha; and white when
\* it is absent or anything else.
C6_LightingColorPrecedence ==
    (pc = "done" /\ IsSome(kind.ret)) =>
        LET got      == kind.ret.val.lighting_color
            declared == {i \in 1..Len(fe.colors) : fe.colors[i] # None}
            nearest  == CHOOSE i \in declared : \A j \in declared : i <= j
        IN  IF "lighting-color" \notin DOMAIN fe.attrs
            THEN got = [red |-> 255, green |-> 255, blue |-> 255]
            ELSE LET v == fe.attrs["lighting-color"]
                 IN  CASE v.tag = "CurrentColor" ->
                            IF declared = {}
                            THEN got = [red |-> 0, green |-> 0, blue |-> 0]
                            ELSE /\ got.red   = fe.colors[nearest].val.red
                                 /\ got.green = fe.colors[nearest].val.green
                                 /\ got.blue  = fe.colors[nearest].val.blue
                                 /\ DOMAIN got = {"red", "green", "blue"}
                       [] v.tag = "Color" ->
                            got = [red |-> v.color.red, green |-> v.color.green,
                                   blue |-> v.color.blue]
                       [] OTHER -> got = [red |-> 255, green |-> 255, blue |-> 255]

C6_Witness ==
    /\ pc = "done"
    /\ IsSome(kind.ret)
    /\ "lighting-color" \in DOMAIN fe.attrs
    /\ fe.attrs["lighting-color"] = CurrentColor
    /\ fe.colors = <<None, Some(Red)>>
    /\ kind.ret.val.lighting_color = [red |-> 255, green |-> 0, blue |-> 0]


(***************************************************************************)
(* LightSource::transform                                                  *)
(*                                                                         *)
(* Coordinates, the region's origin and the transform's coefficients are   *)
(* whole numbers here.  sqrt(a*a + d*d) / SQRT_2 is the non-negative real  *)
(* s with 2*s*s = a*a + d*d; the transforms used are those for which s is  *)
(* a whole number (a = d = 2 gives 2; a = 1, d = 7 gives 5).               *)
(***************************************************************************)
Abs(n) == IF n < 0 THEN -n ELSE n

\* Transform::apply
Apply(t, x, y) == [x |-> x * t.a + y * t.c + t.e, y |-> x * t.b + y * t.d + t.f]

\* (ts.a * ts.a + ts.d * ts.d).sqrt() / SQRT_2
ScaleZ(t) ==
    CHOOSE s \in 0..(Abs(t.a) + Abs(t.d)) : 2 * s * s = t.a * t.a + t.d * t.d

\* lines 162-167
TransformPointYFromX(l, r, t) ==
    LET p == Apply(t, l.x, l.y)
    IN  [l EXCEPT !.x = p.x - r.x, !.y = p.y - r.x, !.z = l.z * ScaleZ(t)]
TransformPoint(l, r, t) ==
    LET p == Apply(t, l.x, l.y)
    IN  [l EXCEPT !.x = p.x - r.x, !.y = p.y - r.y, !.z = l.z * ScaleZ(t)]

\* lines 168-180
TransformSpotYFromY(l, r, t) ==
    LET sz == ScaleZ(t)
        p  == Apply(t, l.x, l.y)
        q  == Apply(t, l.points_at_x, l.points_at_y)
    IN  [l EXCEPT !.x = p.x - r.x, !.y = p.y - r.y, !.z = l.z * sz,
                  !.points_at_x = q.x - r.x, !.points_at_y = q.y - r.y,
                  !.points_at_z = l.points_at_z * sz]
TransformSpot(l, r, t) ==
    LET sz == ScaleZ(t)
        p  == Apply(t, l.x, l.y)
        q  == Apply(t, l.points_at_x, l.points_at_y)
    IN  [l EXCEPT !.x = p.x - r.x, !.y = p.y - r.x, !.z = l.z * sz,
                  !.points_at_x = q.x - r.x, !.points_at_y = q.y - r.x,
                  !.points_at_z = l.points_at_z * sz]

transform(l, r, t) ==
    CASE l.tag = "DistantLight" -> l
      [] l.tag = "PointLight"   -> TransformPoint(l, r, t)
      [] l.tag = "SpotLight"    -> TransformSpot(l, r, t)

TransformLight ==
    /\ pc = "call"
    /\ pc' = "done"
    /\ transformed' = transform(light, region, ts)
    /\ UNCHANGED <<light, region, ts, imageVars, lightingVars, convertVars>>

DistantLights == {[tag |-> "DistantLight", azimuth |-> 45, elevation |-> 30]}

PointLights ==
    {[tag |-> "PointLight", x |-> x, y |-> y, z |-> z] :
        x \in {-3, 0, 10}, y \in {0, 10}, z \in {-5, 0, 5}}

SpotLights ==
    {[tag |-> "SpotLight", x |-> x, y |-> y, z |-> 5,
      points_at_x |-> px, points_at_y |-> py, points_at_z |-> pz,
      specular_exponent |-> 1, limiting_cone_angle |-> cone] :
        x \in {0, 10}, y \in {0, 10}, px \in {0, 4}, py \in {0, 7},
        pz \in {0, -2}, cone \in {None, Some(30)}}

Regions ==
    {[x |-> x, y |-> y, width |-> 100, height |-> 100] :
        x \in {-1, 2, 3}, y \in {-1, 2, 3}}

Transforms ==
    {[a |-> s[1], b |-> b, c |-> c, d |-> s[2], e |-> e, f |-> f] :
        s \in {<<1, 1>>, <<2, 2>>, <<1, 7>>, <<-1, 1>>},
        b \in {0, 1}, c \in {0, 1}, e \in {0, 3}, f \in {0, -4}}

InitTransform ==
    /\ pc = "call"
    /\ light \in DistantLights \cup PointLights \cup SpotLights
    /\ region \in Regions
    /\ ts \in Transforms
    /\ transformed = NoValue
    /\ ImageIdle /\ LightingIdle /\ ConvertIdle

NextTransform == TransformLight

SpecTransform == InitTransform /\ [][NextTransform]_vars

\* C7: a point light's position is the transform's image of (x, y) less the
\* region's origin, x less region.x and y less region.y, and its z is
\* z * sqrt(a^2 + d^2) / sqrt(2); the light (10, 10, 5) in a region at (2, 2)
\* under a = d = 2 gets (mapped_x - 2, mapped_y - 2) and z = 10.
C7_PointLightTransform ==
    (pc = "done" /\ light.tag = "PointLight") =>
        LET mapped_x == Apply(ts, light.x, light.y).x
            mapped_y == Apply(ts, light.x, light.y).y
        IN  /\ transformed.tag = "PointLight"
            /\ transformed.x = mapped_x - region.x
            /\ transformed.y = mapped_y - region.y
            /\ 2 * transformed.z * transformed.z
                  = light.z * light.z * (ts.a * ts.a + ts.d * ts.d)
            /\ transformed.z * light.z >= 0
            /\ (/\ light.x = 10 /\ light.y = 10 /\ light.z = 5
                /\ region.x = 2 /\ region.y = 2 /\ ts.a = 2 /\ ts.d = 2) =>
                  /\ transformed.x = mapped_x - 2
                  /\ transformed.y = mapped_y - 2
                  /\ transformed.z = 10

C7_Witness ==
    /\ pc = "done"
    /\ light = [tag |-> "PointLight", x |-> 10, y |-> 10, z |-> 5]
    /\ region.x = 2 /\ region.y = 3
    /\ ts = [a |-> 2, b |-> 0, c |-> 0, d |-> 2, e |-> 0, f |-> 0]
    /\ transformed = [tag |-> "PointLight", x |-> 18, y |-> 17, z |-> 10]

\* C8: a spot light's transformed (x, y, z) is that of a point light with
\* the same (x, y, z), and its points-at position is mapped the same way.
C8_SpotLikePoint ==
    (pc = "done" /\ light.tag = "SpotLight") =>
        LET asPoint == transform([tag |-> "PointLight", x |-> light.x,
                                  y |-> light.y, z |-> light.z], region, ts)
            pointsAt == transform([tag |-> "PointLight", x |-> light.points_at_x,
                                   y |-> light.points_at_y,
                                   z |-> light.points_at_z], region, ts)
        IN  /\ transformed.x = asPoint.x
            /\ transformed.y = asPoint.y
            /\ transformed.z = asPoint.z
            /\ transformed.points_at_x = pointsAt.x
            /\ transformed.points_at_y = pointsAt.y
            /\ transformed.points_at_z = pointsAt.z

\* C9: for a spot light, the region's x origin, not its y origin, is taken
\* from the mapped y of both the position and the points-at position.
C9_SpotYUsesRegionX ==
    (pc = "done" /\ light.tag = "SpotLight") =>
        LET mapped_y == Apply(ts, light.x, light.y).y
            mapped_points_at_y ==
                Apply(ts, light.points_at_x, light.points_at_y).y
        IN  /\ transformed.y = mapped_y - region.x
            /\ transformed.points_at_y = mapped_points_at_y - region.x

C9_Witness ==
    /\ pc = "done"
    /\ light.tag = "SpotLight"
    /\ light.y = 10 /\ light.points_at_y = 7
    /\ region.x = 2 /\ region.y = 3
    /\ ts = [a |-> 1, b |-> 0, c |-> 0, d |-> 1, e |-> 0, f |-> 0]
    /\ transformed.y = 8 /\ transformed.points_at_y = 5


(***************************************************************************)
(* image::convert and get_href_data                                        *)
(***************************************************************************)
\* get_href_data: opt.image_data.get(href).map(Clone::clone)
get_href_data(href, cache) ==
    IF href \in DOMAIN cache THEN Some(cache[href]) ELSE None

\* NodeExt::convert_user_length with Length::zero() as the default
UserLength(n, aid) == UnwrapOr(Attr(n, aid), 0)

\* Rect::new: a rectangle only for a finite, positive width and height
RectNew(x, y, w, h) ==
    IF w > 0 /\ IsFinite(w) /\ h > 0 /\ IsFinite(h)
    THEN Some([x |-> x, y |-> y, width |-> w, height |-> h])
    ELSE None

InvalidSizeWarning == "Image has an invalid size. Skipped."
LacksHrefWarning   == "Image lacks the 'xlink:href' attribute. Skipped."

\* what convert returns, and `parent`'s children and the log after it
convert(n, cache, children, warnings) ==
    LET visibility     == UnwrapOr(Attr(n, "visibility"), "visible")
        rendering_mode == UnwrapOr(Attr(n, "image-rendering"), "optimizeQuality")
        rect == RectNew(UserLength(n, "x"), UserLength(n, "y"),
                        UserLength(n, "width"), UserLength(n, "height"))
        href == Attr(n, "href")
    IN  IF ~IsSome(rect)
        THEN [ret |-> None, tree |-> children,
              log |-> Append(warnings, InvalidSizeWarning)]
        ELSE IF ~IsSome(href)
        THEN [ret |-> None, tree |-> children,
              log |-> Append(warnings, LacksHrefWarning)]
        ELSE LET data == get_href_data(href.val, cache)
             IN  IF ~IsSome(data)
                 THEN [ret |-> None, tree |-> children, log |-> warnings]
                 ELSE [ret  |-> Some("()"),
                       tree |-> Append(children,
                                  [tag            |-> "Image",
                                   id             |-> n.attrs.id,
                                   transform      |-> "default",
                                   visibility     |-> visibility,
                                   view_box       |->
                                       [rect   |-> rect.val,
                                        aspect |-> UnwrapOr(
                                            Attr(n, "preserveAspectRatio"),
                                            "xMidYMid")],
                                   rendering_mode |-> rendering_mode,
                                   data           |-> data.val]),
                       log  |-> warnings]

Convert ==
    /\ pc = "call"
    /\ pc' = "done"
    /\ LET r == convert(node, image_data, tree, log)
       IN  /\ tree' = r.tree
           /\ log'  = r.log
           /\ last' = [tree |-> tree, log |-> log, ret |-> r.ret]
    /\ UNCHANGED <<node, image_data, imageVars, lightingVars, transformVars>>

\* Bound of the output tree before the call.
MaxSiblings == 1    \* `parent` already has up to MaxSiblings children

Hrefs == {"a.png", "b.png"}

Lengths == {-5, 10, Infinity}

ImageNodes ==
    {[attrs |-> (((a1 @@ a2) @@ a3) @@ a4) @@ a5] :
        a1 \in Opt("width", Lengths), a2 \in Opt("height", Lengths),
        a3 \in Opt("href", Hrefs), a4 \in Opt("visibility", {"hidden"}),
        a5 \in Opt("x", {3})}

Caches ==
    UNION {[S -> {[tag |-> "PreloadedImageData", width |-> 1, height |-> 1,
                   data |-> <<128, 64, 0, 128>>]}] : S \in SUBSET Hrefs}

Siblings == {[tag |-> "Path", id |-> "p"], [tag |-> "Group", id |-> "g"]}

InitConvert ==
    /\ pc = "call"
    /\ node \in ImageNodes
    /\ image_data \in Caches
    /\ tree \in SeqsUpTo(Siblings, MaxSiblings)
    /\ log \in {<<>>, <<LacksHrefWarning>>}
    /\ last = NoValue
    /\ ImageIdle /\ LightingIdle /\ TransformIdle

NextConvert == Convert

SpecConvert == InitConvert /\ [][NextConvert]_vars

\* C10: convert appends exactly one image element when the rectangle is
\* valid, the reference is present and the reference is cached; in each of
\* the three other cases it appends nothing, leaves the tree as it was, and
\* emits a warning.
C10_AppendOrWarn ==
    pc = "done" =>
        LET w == IF "width" \in DOMAIN node.attrs THEN node.attrs.width ELSE 0
            h == IF "height" \in DOMAIN node.attrs THEN node.attrs.height ELSE 0
            valid  == w > 0 /\ w < Infinity /\ h > 0 /\ h < Infinity
            cached == /\ "href" \in DOMAIN node.attrs
                      /\ node.attrs.href \in DOMAIN image_data
        IN  IF valid /\ cached
            THEN /\ Len(tree) = Len(last.tree) + 1
                 /\ SubSeq(tree, 1, Len(last.tree)) = last.tree
                 /\ tree[Len(tree)].tag = "Image"
            ELSE /\ tree = last.tree
                 /\ Len(log) > Len(last.log)

(***************************************************************************)
(* Properties of PreloadedImageData::new (under SpecImage)                 *)
(***************************************************************************)
\* C1: for a buffer of whole pixels, the pixel (r, g, b, a) becomes
\* (floor(r*a/255 + 1/2), floor(g*a/255 + 1/2), floor(b*a/255 + 1/2), a) at
\* the same place; so a = 255 keeps r, g and b, and a = 0 gives (0, 0, 0, 0).
C1_PremultiplyRoundHalfUp ==
    (pc = "done" /\ Len(rgba_data) % 4 = 0) =>
        /\ image.tag = "PreloadedImageData"
        /\ Len(image.data) = Len(rgba_data)
        /\ \A p \in 0..((Len(rgba_data) \div 4) - 1) :
              LET a == rgba_data[4 * p + 4]
              IN  /\ \A k \in 1..3 :
                        image.data[4 * p + k]
                            = (2 * rgba_data[4 * p + k] * a + 255) \div 510
                  /\ image.data[4 * p + 4] = a
                  /\ a = 255 => \A k \in 1..3 :
                        image.data[4 * p + k] = rgba_data[4 * p + k]
                  /\ a = 0 => \A k \in 1..4 : image.data[4 * p + k] = 0

C1_Witness ==
    /\ pc = "done"
    /\ rgba_data = <<255, 128, 0, 128, 10, 20, 30, 255>>
    /\ image.tag = "PreloadedImageData"
    /\ image.data = <<128, 64, 0, 128, 10, 20, 30, 255>>

\* C2: a call with rgba_data.len() # width * height * 4 is reported as an
\* InvalidBufferLength error: no image buffer is returned.
C2_InvalidBufferLength ==
    (pc = "done" /\ Len(rgba_data) # width * height * 4) =>
        image.tag # "PreloadedImageData"

=============================================================================
